---------------------------- MODULE Spec2Model ----------------------------
(***************************************************************************)
(* Model of pyskl/core/ava_utils/np_box.py: the box geometry functions     *)
(* area, intersection and iou over [N, 4] arrays, and the BoxList          *)
(* container.                                                              *)
(*                                                                         *)
(* Numbers.  Coordinates are integer-valued floats of small magnitude, on  *)
(* which float32/float64 addition, subtraction and multiplication are      *)
(* exact, so they are modelled by integers.  A float quotient is modelled  *)
(* by the reduced fraction <<num, den>> (den > 0), and the IEEE results of *)
(* a division by zero by <<0, 0>> (nan), <<1, 0>> (inf), <<-1, 0>> (-inf). *)
(*                                                                         *)
(* Arrays.  An [N, 4] box array is a sequence of N 4-tuples                *)
(* <<y_min, x_min, y_max, x_max>>; a 1-d array is a sequence; a 2-d array  *)
(* is a record [shape |-> <<r, c>>, at |-> [(1..r) \X (1..c) -> value]].   *)
(***************************************************************************)
EXTENDS Integers, Sequences, FiniteSets, TLC

VARIABLES
    \* ---- geometry functions (specification SpecGeom) ----
    boxes1,     \* first argument of the call
    boxes2,     \* second argument of the call
    fn,         \* "none" before the call, then the function that was called
    out,        \* the value the call returned
    \* ---- BoxList (specification Spec) ----
    data,       \* self.data: field name -> array, or NoObject
    call,       \* the last call made: [op, field, arg]
    raised,     \* the exception the last call raised, or "none"
    ret,        \* the value the last call returned, or NoValue
    firstAdd    \* history: field name -> data of its first successful add

geomVars == <<boxes1, boxes2, fn, out>>
listVars == <<data, call, raised, ret, firstAdd>>
vars == <<boxes1, boxes2, fn, out, data, call, raised, ret, firstAdd>>

-----------------------------------------------------------------------------
(* Bounds *)

\* geometry: coordinates are 5*k.  Arrays of at most one row hold ordered
\* boxes with k \in 0..MaxCoord
MaxCoord == 3
\* geometry: arrays of several rows hold boxes <<a, a, c, c>>, a <= c, with
\* a, c \in {0, 5, 10}; the two arrays of a call hold at most MaxRows rows
\* together
MaxRows == 4
\* BoxList: a box array or a field array has at most MaxBoxes rows
MaxBoxes == 2

-----------------------------------------------------------------------------
(* numpy primitives used by the geometry functions *)

\* np.split(boxes, 4, axis=1)[k]: column k (0-based) as an [N, 1] array
split(boxes, k) ==
    [shape |-> <<Len(boxes), 1>>,
     at |-> [p \in (1..Len(boxes)) \X (1..1) |-> boxes[p[1]][k + 1]]]

\* boxes[:, k]: column k (0-based) as a 1-d array
column(boxes, k) == [i \in 1..Len(boxes) |-> boxes[i][k + 1]]

\* np.transpose of a 2-d array
transpose(a) ==
    [shape |-> <<a.shape[2], a.shape[1]>>,
     at |-> [p \in (1..a.shape[2]) \X (1..a.shape[1]) |-> a.at[<<p[2], p[1]>>]]]

\* np.expand_dims(v, axis) of a 1-d array
expand_dims(v, axis) ==
    IF axis = 1
    THEN [shape |-> <<Len(v), 1>>,
          at |-> [p \in (1..Len(v)) \X (1..1) |-> v[p[1]]]]
    ELSE [shape |-> <<1, Len(v)>>,
          at |-> [p \in (1..1) \X (1..Len(v)) |-> v[p[2]]]]

\* np.zeros(shape)
zeros(shape) ==
    [shape |-> shape, at |-> [p \in (1..shape[1]) \X (1..shape[2]) |-> 0]]

GCD(a, b) ==
    LET RECURSIVE g(_, _)
        g(x, y) == IF y = 0 THEN x ELSE g(y, x % y)
    IN  g(IF a < 0 THEN 0 - a ELSE a, IF b < 0 THEN 0 - b ELSE b)

\* mutant of true_divide: a zero divisor is guarded and gives 0
true_divide_guarded(x, y) ==
    IF y = 0
    THEN <<0, 1>>
    ELSE LET g == GCD(x, y)
             s == IF y < 0 THEN 0 - 1 ELSE 1
         IN  <<(s * x) \div g, (s * y) \div g>>

\* x / y on floats: no exception; nan or +-inf on a zero divisor
true_divide(x, y) ==
    IF y = 0
    THEN (IF x = 0 THEN <<0, 0>> ELSE IF x > 0 THEN <<1, 0>> ELSE <<0 - 1, 0>>)
    ELSE LET g == GCD(x, y)
             s == IF y < 0 THEN 0 - 1 ELSE 1
         IN  <<(s * x) \div g, (s * y) \div g>>

\* the scalar function behind an elementwise numpy operation
ufunc(op, x, y) ==
    CASE op = "minimum"  -> IF x <= y THEN x ELSE y
      [] op = "maximum"  -> IF x >= y THEN x ELSE y
      [] op = "subtract" -> x - y
      [] op = "add"      -> x + y
      [] op = "multiply" -> x * y
      [] op = "divide"   -> true_divide(x, y)

\* length of one axis of the broadcast of two arrays
bdim(m, n) == IF m = n THEN m ELSE IF m = 1 THEN n ELSE m

\* index along an axis of length m when broadcast
bidx(m, i) == IF m = 1 THEN 1 ELSE i

\* elementwise binary operation on 2-d arrays with numpy broadcasting
\* (every pair of axis lengths in the code is equal or has a 1)
elementwise(op, a, b) ==
    LET r == bdim(a.shape[1], b.shape[1])
        c == bdim(a.shape[2], b.shape[2])
    IN  [shape |-> <<r, c>>,
         at |-> [p \in (1..r) \X (1..c) |->
                   ufunc(op,
                         a.at[<<bidx(a.shape[1], p[1]), bidx(a.shape[2], p[2])>>],
                         b.at[<<bidx(b.shape[1], p[1]), bidx(b.shape[2], p[2])>>])]]

\* elementwise binary operation on 1-d arrays of equal length
elementwise1(op, u, v) == [i \in 1..Len(u) |-> ufunc(op, u[i], v[i])]

-----------------------------------------------------------------------------
(* area, intersection, iou *)

\* mutant of area: the width is taken from column 0 instead of column 1
area_wrong_column(boxes) ==
    elementwise1("multiply",
                 elementwise1("subtract", column(boxes, 2), column(boxes, 0)),
                 elementwise1("subtract", column(boxes, 3), column(boxes, 0)))

area(boxes) ==
    elementwise1("multiply",
                 elementwise1("subtract", column(boxes, 2), column(boxes, 0)),
                 elementwise1("subtract", column(boxes, 3), column(boxes, 1)))

\* mutant of all_pairs_min_ymax: np.maximum in place of np.minimum
all_pairs_min_ymax_maximum(b1, b2) ==
    elementwise("maximum", split(b1, 2), transpose(split(b2, 2)))

all_pairs_min_ymax(b1, b2) ==
    elementwise("minimum", split(b1, 2), transpose(split(b2, 2)))

\* mutant of all_pairs_max_ymin: x_min2 in place of y_min2
all_pairs_max_ymin_xmin2(b1, b2) ==
    elementwise("maximum", split(b1, 0), transpose(split(b2, 1)))

all_pairs_max_ymin(b1, b2) ==
    elementwise("maximum", split(b1, 0), transpose(split(b2, 0)))

\* mutant of intersect_heights: the height is not clamped at zero
intersect_heights_unclamped(b1, b2) ==
    elementwise("subtract", all_pairs_min_ymax(b1, b2),
                all_pairs_max_ymin(b1, b2))

intersect_heights(b1, b2) ==
    elementwise("maximum",
                zeros(all_pairs_max_ymin(b1, b2).shape),
                elementwise("subtract", all_pairs_min_ymax(b1, b2),
                            all_pairs_max_ymin(b1, b2)))

all_pairs_min_xmax(b1, b2) ==
    elementwise("minimum", split(b1, 3), transpose(split(b2, 3)))

all_pairs_max_xmin(b1, b2) ==
    elementwise("maximum", split(b1, 1), transpose(split(b2, 1)))

intersect_widths(b1, b2) ==
    elementwise("maximum",
                zeros(all_pairs_max_xmin(b1, b2).shape),
                elementwise("subtract", all_pairs_min_xmax(b1, b2),
                            all_pairs_max_xmin(b1, b2)))

intersection(b1, b2) ==
    elementwise("multiply", intersect_heights(b1, b2), intersect_widths(b1, b2))

\* mutant of union: the intersection is added instead of subtracted
union_added(b1, b2) ==
    elementwise("add",
                elementwise("add", expand_dims(area(b1), 1),
                            expand_dims(area(b2), 0)),
                intersection(b1, b2))

union(b1, b2) ==
    elementwise("subtract",
                elementwise("add", expand_dims(area(b1), 1),
                            expand_dims(area(b2), 0)),
                intersection(b1, b2))

iou(b1, b2) == elementwise("divide", intersection(b1, b2), union(b1, b2))

-----------------------------------------------------------------------------
(* Inputs of the geometry functions *)

Coord(m) == {5 * k : k \in 0..m}

BoxesOver(S) == S \X S \X S \X S

\* the boxes that satisfy y_min <= y_max and x_min <= x_max
OrderedOver(S) == {b \in BoxesOver(S) : b[1] <= b[3] /\ b[2] <= b[4]}

ArraysOf(B, n) == UNION {[1..k -> B] : k \in 0..n}

\* ordered boxes with equal y and x extents
SquaresOver(S) == {b \in OrderedOver(S) : b[1] = b[2] /\ b[3] = b[4]}

GeomInputs ==
    \* at most one row each: ordered boxes
    (ArraysOf(OrderedOver(Coord(MaxCoord)), 1)
        \X ArraysOf(OrderedOver(Coord(MaxCoord)), 1))
    \* at most one row each: any boxes, misordered ones included
    \cup (ArraysOf(BoxesOver(Coord(1)), 1) \X ArraysOf(BoxesOver(Coord(1)), 1))
    \* several rows
    \cup UNION {[1..n -> SquaresOver(Coord(2))]
                    \X ArraysOf(SquaresOver(Coord(2)), MaxRows - n) :
                  n \in 0..MaxRows}

NoValue == "NoValue"

GeomInit ==
    /\ \E p \in GeomInputs : boxes1 = p[1] /\ boxes2 = p[2]
    /\ fn = "none"
    /\ out = NoValue

\* the geometry functions are not in use
GeomIdle ==
    /\ boxes1 = << >>
    /\ boxes2 = << >>
    /\ fn = "none"
    /\ out = NoValue

\* area takes one array: the call is made when no second one was given
CallArea ==
    /\ fn = "none"
    /\ boxes2 = << >>
    /\ fn' = "area"
    /\ out' = area(boxes1)
    /\ UNCHANGED <<boxes1, boxes2>>
    /\ UNCHANGED listVars

CallIntersection ==
    /\ fn = "none"
    /\ fn' = "intersection"
    /\ out' = intersection(boxes1, boxes2)
    /\ UNCHANGED <<boxes1, boxes2>>
    /\ UNCHANGED listVars

CallIou ==
    /\ fn = "none"
    /\ fn' = "iou"
    /\ out' = iou(boxes1, boxes2)
    /\ UNCHANGED <<boxes1, boxes2>>
    /\ UNCHANGED listVars

-----------------------------------------------------------------------------
(* BoxList *)

(* self.data is a Python dict: a sequence of <<key, value>> pairs in       *)
(* insertion order with unique keys.  NoObject stands for "the constructor *)
(* has not returned an object": no dict exists.                            *)
NoObject == << >>

keys(d) == {d[i][1] : i \in 1..Len(d)}

\* key in d
contains(d, k) == \E i \in 1..Len(d) : d[i][1] = k

\* d[k], for a key of d
getitem(d, k) == d[CHOOSE i \in 1..Len(d) : d[i][1] = k][2]

\* d[k] = v: replaces the value of an existing key, appends a new one
setitem(d, k, v) ==
    IF contains(d, k)
    THEN [i \in 1..Len(d) |-> IF d[i][1] = k THEN <<k, v>> ELSE d[i]]
    ELSE Append(d, <<k, v>>)

(* A numpy array is [isarray |-> TRUE, shape, dtype, rows]; rows holds the *)
(* content: the boxes of an [N, 4] array, a payload label for any other    *)
(* array.  A value that is no numpy array has isarray = FALSE.             *)
_is_valid_boxes(d) ==
    IF Len(d.rows) # 0
    THEN ~ \E i \in 1..Len(d.rows) :
              d.rows[i][1] > d.rows[i][3] \/ d.rows[i][2] > d.rows[i][4]
    ELSE TRUE

\* the exception BoxList.__init__(d) raises, or "none"
init_raises(d) ==
    IF ~ d.isarray THEN "ValueError"
    ELSE IF Len(d.shape) # 2 \/ d.shape[2] # 4 THEN "ValueError"
    ELSE IF d.dtype # "float32" /\ d.dtype # "float64" THEN "ValueError"
    ELSE IF ~ _is_valid_boxes(d) THEN "ValueError"
    ELSE "none"

num_boxes(d) == getitem(d, "boxes").shape[1]

get_extra_fields(d) ==
    LET RECURSIVE walk(_)
        walk(i) ==
            IF i > Len(d) THEN << >>
            ELSE IF d[i][1] # "boxes" THEN <<d[i][1]>> \o walk(i + 1)
            ELSE walk(i + 1)
    IN  walk(1)

has_field(d, field) == contains(d, field)

\* mutant of add_field_raises: the leading dimension is not compared with
\* the number of boxes
add_field_raises_any_length(d, field, field_data) ==
    IF has_field(d, field) THEN "ValueError"
    ELSE IF Len(field_data.shape) < 1 THEN "ValueError"
    ELSE "none"

\* the exception add_field(field, field_data) raises, or "none"
add_field_raises(d, field, field_data) ==
    IF has_field(d, field) THEN "ValueError"
    ELSE IF Len(field_data.shape) < 1 \/ field_data.shape[1] # num_boxes(d)
    THEN "ValueError"
    ELSE "none"

\* mutant of add_field: the assignment is made before the checks
add_field_assign_first(d, field, field_data) == setitem(d, field, field_data)

\* mutant of add_field: an existing field is overwritten when the call fails
\* on the duplicate name
add_field_overwriting(d, field, field_data) ==
    IF Len(field_data.shape) < 1 \/ field_data.shape[1] # num_boxes(d)
    THEN d
    ELSE setitem(d, field, field_data)

\* self.data after add_field(field, field_data)
add_field(d, field, field_data) ==
    IF add_field_raises(d, field, field_data) # "none"
    THEN d
    ELSE setitem(d, field, field_data)

get_field_raises(d, field) ==
    IF ~ has_field(d, field) THEN "ValueError" ELSE "none"

get_field(d, field) == getitem(d, field)

get_coordinates(d) ==
    LET box_coordinates == get_field(d, "boxes").rows
    IN  <<column(box_coordinates, 0), column(box_coordinates, 1),
          column(box_coordinates, 2), column(box_coordinates, 3)>>

-----------------------------------------------------------------------------
(* Inputs of the BoxList operations *)

FieldNames == {"boxes", "scores", "labels"}

DTypes == {"int64", "float16", "float32", "float64"}

\* boxes <<0, 0, a, b>>: every sign of y_max - y_min and of x_max - x_min
SignBoxes == {<<0, 0, a, b>> : a \in {0 - 1, 0, 1}, b \in {0 - 1, 0, 1}}

BoxArrays ==
    {[isarray |-> TRUE, shape |-> <<Len(r), 4>>, dtype |-> t, rows |-> r] :
        r \in ArraysOf(SignBoxes, MaxBoxes), t \in DTypes}

\* arrays of another shape: [n], [n, 3], [n, 4, 1]
MisshapenArrays ==
    {[isarray |-> TRUE, shape |-> s, dtype |-> t, rows |-> "p"] :
        s \in UNION {{<<n>>, <<n, 3>>, <<n, 4, 1>>} : n \in 0..MaxBoxes},
        t \in DTypes}

\* a nested Python list [[0., 0., 1., 1.]]
NotAnArray ==
    [isarray |-> FALSE, shape |-> <<1, 4>>, dtype |-> "float64",
     rows |-> <<<<0, 0, 1, 1>>>>]

ConstructInputs == BoxArrays \cup MisshapenArrays \cup {NotAnArray}

\* field data: arrays of shape [n] with one of two contents, and arrays of
\* shape [] and [n, 2]
FieldArrays ==
    {[isarray |-> TRUE, shape |-> <<n>>, dtype |-> "float64", rows |-> c] :
        n \in 0..MaxBoxes, c \in {"p", "q"}}
    \cup {[isarray |-> TRUE, shape |-> s, dtype |-> "int64", rows |-> "p"] :
            s \in {<< >>} \cup {<<n, 2>> : n \in 0..MaxBoxes}}

constructed == data # NoObject

ListInit ==
    /\ data = NoObject
    /\ call = [op |-> "none", field |-> NoValue, arg |-> NoValue]
    /\ raised = "none"
    /\ ret = NoValue
    /\ firstAdd = << >>

\* BoxList(d)
Construct ==
    /\ ~ constructed
    /\ \E d \in ConstructInputs :
        /\ call' = [op |-> "__init__", field |-> NoValue, arg |-> d]
        /\ raised' = init_raises(d)
        /\ data' = IF init_raises(d) = "none" THEN <<<<"boxes", d>>>> ELSE NoObject
        /\ firstAdd' = IF init_raises(d) = "none" THEN [f \in {"boxes"} |-> d]
                       ELSE firstAdd
    /\ ret' = NoValue
    /\ UNCHANGED geomVars

AddField ==
    /\ constructed
    /\ \E field \in FieldNames, field_data \in FieldArrays :
        /\ call' = [op |-> "add_field", field |-> field, arg |-> field_data]
        /\ raised' = add_field_raises(data, field, field_data)
        /\ data' = add_field(data, field, field_data)
        /\ firstAdd' =
             IF add_field_raises(data, field, field_data) = "none"
                /\ field \notin DOMAIN firstAdd
             THEN [f \in DOMAIN firstAdd \cup {field} |->
                     IF f = field THEN field_data ELSE firstAdd[f]]
             ELSE firstAdd
    /\ ret' = NoValue
    /\ UNCHANGED geomVars

GetField ==
    /\ constructed
    /\ \E field \in FieldNames :
        /\ call' = [op |-> "get_field", field |-> field, arg |-> NoValue]
        /\ raised' = get_field_raises(data, field)
        /\ ret' = IF get_field_raises(data, field) = "none"
                  THEN get_field(data, field) ELSE NoValue
    /\ UNCHANGED <<data, firstAdd>>
    /\ UNCHANGED geomVars

Get ==
    /\ constructed
    /\ call' = [op |-> "get", field |-> NoValue, arg |-> NoValue]
    /\ raised' = get_field_raises(data, "boxes")
    /\ ret' = IF get_field_raises(data, "boxes") = "none"
              THEN get_field(data, "boxes") ELSE NoValue
    /\ UNCHANGED <<data, firstAdd>>
    /\ UNCHANGED geomVars

GetCoordinates ==
    /\ constructed
    /\ call' = [op |-> "get_coordinates", field |-> NoValue, arg |-> NoValue]
    /\ raised' = get_field_raises(data, "boxes")
    /\ ret' = IF get_field_raises(data, "boxes") = "none"
              THEN get_coordinates(data) ELSE NoValue
    /\ UNCHANGED <<data, firstAdd>>
    /\ UNCHANGED geomVars

NumBoxes ==
    /\ constructed
    /\ call' = [op |-> "num_boxes", field |-> NoValue, arg |-> NoValue]
    /\ raised' = "none"
    /\ ret' = num_boxes(data)
    /\ UNCHANGED <<data, firstAdd>>
    /\ UNCHANGED geomVars

HasField ==
    /\ constructed
    /\ \E field \in FieldNames :
        /\ call' = [op |-> "has_field", field |-> field, arg |-> NoValue]
        /\ ret' = has_field(data, field)
    /\ raised' = "none"
    /\ UNCHANGED <<data, firstAdd>>
    /\ UNCHANGED geomVars

GetExtraFields ==
    /\ constructed
    /\ call' = [op |-> "get_extra_fields", field |-> NoValue, arg |-> NoValue]
    /\ raised' = "none"
    /\ ret' = get_extra_fields(data)
    /\ UNCHANGED <<data, firstAdd>>
    /\ UNCHANGED geomVars

-----------------------------------------------------------------------------
(* Specifications *)

Init == ListInit /\ GeomIdle

Next ==
    \/ Construct
    \/ AddField
    \/ GetField
    \/ Get
    \/ GetCoordinates
    \/ NumBoxes
    \/ HasField
    \/ GetExtraFields

Spec == Init /\ [][Next]_vars

InitGeom == GeomInit /\ ListInit

NextGeom == CallArea \/ CallIntersection \/ CallIou

SpecGeom == InitGeom /\ [][NextGeom]_vars

-----------------------------------------------------------------------------
(* The stated properties, in the statements' own terms *)

Min2(x, y) == IF x <= y THEN x ELSE y
Max2(x, y) == IF x >= y THEN x ELSE y

\* (y_max - y_min) * (x_max - x_min) of one box
BoxArea(b) == (b[3] - b[1]) * (b[4] - b[2])

\* max(0, min(y_max1, y_max2) - max(y_min1, y_min2)) times the same on x
BoxIntersection(a, b) ==
    Max2(0, Min2(a[3], b[3]) - Max2(a[1], b[1]))
        * Max2(0, Min2(a[4], b[4]) - Max2(a[2], b[2]))

\* q is the float quotient n / d, d # 0
IsQuotient(q, n, d) == q[2] > 0 /\ q[1] * d = q[2] * n

IsOrdered(b) == b[1] <= b[3] /\ b[2] <= b[4]

AllOrdered == (\A i \in 1..Len(boxes1) : IsOrdered(boxes1[i]))
              /\ (\A j \in 1..Len(boxes2) : IsOrdered(boxes2[j]))

Pairs == (1..Len(boxes1)) \X (1..Len(boxes2))

Example1 == <<<<0, 0, 10, 10>>>>
Example2 == <<<<5, 5, 15, 15>>>>

\* C5: intersection returns the N x M matrix whose entry (i, j) is the
\* product of the clamped overlap height and width of boxes1[i] and
\* boxes2[j]; iou returns that intersection divided by area1_i + area2_j -
\* intersection for each pair; the example [[0,0,10,10]] against
\* [[5,5,15,15]] gives intersection 25, areas 100 and 100, iou 25/175.
C5_IntersectionIouValues ==
    /\ fn = "intersection" =>
        /\ out.shape = <<Len(boxes1), Len(boxes2)>>
        /\ \A p \in Pairs :
             out.at[p] = BoxIntersection(boxes1[p[1]], boxes2[p[2]])
        /\ (boxes1 = Example1 /\ boxes2 = Example2) => out.at[<<1, 1>>] = 25
    /\ fn = "iou" =>
        /\ out.shape = <<Len(boxes1), Len(boxes2)>>
        /\ \A p \in Pairs :
             LET i == BoxIntersection(boxes1[p[1]], boxes2[p[2]])
                 u == BoxArea(boxes1[p[1]]) + BoxArea(boxes2[p[2]]) - i
             IN  u # 0 => IsQuotient(out.at[p], i, u)
        /\ (boxes1 = Example1 /\ boxes2 = Example2) =>
             IsQuotient(out.at[<<1, 1>>], 25, 175)
    /\ (fn = "area" /\ boxes1 \in {Example1, Example2}) => out = <<100>>

C5_Witness ==
    /\ fn = "iou"
    /\ boxes1 = Example1
    /\ boxes2 = Example2
    /\ out.at[<<1, 1>>] = <<1, 7>>

\* C6: intersection(A, B)[i][j] = intersection(B, A)[j][i] for every i < N,
\* j < M.
C6_IntersectionSymmetric ==
    fn = "intersection" =>
        \A p \in Pairs :
            out.at[p] = intersection(boxes2, boxes1).at[<<p[2], p[1]>>]

C6_Witness ==
    /\ fn = "intersection"
    /\ Len(boxes1) = 2
    /\ Len(boxes2) = 1
    /\ boxes1[1] # boxes2[1]
    /\ out.at[<<1, 1>>] > 0
    /\ out.at[<<2, 1>>] > out.at[<<1, 1>>]

\* C7: iou(boxes, boxes) is 1.0 at every diagonal entry (i, i) whose box has
\* y_min < y_max and x_min < x_max.
C7_SelfIouDiagonalOne ==
    (fn = "iou" /\ boxes1 = boxes2) =>
        \A i \in 1..Len(boxes1) :
            (boxes1[i][1] < boxes1[i][3] /\ boxes1[i][2] < boxes1[i][4])
                => out.at[<<i, i>>] = <<1, 1>>

C7_Witness ==
    /\ fn = "iou"
    /\ boxes1 = boxes2
    /\ Len(boxes1) = 2
    /\ boxes1[1] # boxes1[2]
    /\ out.at[<<1, 1>>] = <<1, 1>>
    /\ out.at[<<2, 2>>] = <<1, 1>>
    /\ out.at[<<1, 2>>] # <<1, 1>>

\* C8: area returns one value per box, (y_max - y_min) * (x_max - x_min),
\* for misordered boxes as well, and so 0 for a box with y_min = y_max or
\* x_min = x_max.
C8_AreaValues ==
    fn = "area" =>
        /\ Len(out) = Len(boxes1)
        /\ \A i \in 1..Len(boxes1) :
            /\ out[i] = BoxArea(boxes1[i])
            /\ (boxes1[i][1] = boxes1[i][3] \/ boxes1[i][2] = boxes1[i][4])
                 => out[i] = 0

C8_Witness ==
    /\ fn = "area"
    /\ Len(boxes1) = 1
    /\ boxes1[1][1] = boxes1[1][3]
    /\ boxes1[1][2] > boxes1[1][4]
    /\ out = <<0>>

\* C9: for ordered boxes the divisor area1_i + area2_j - intersection_ij of
\* iou is zero exactly when both boxes have zero area, and the division is
\* then made all the same (its result is nan); when one of the two boxes has
\* positive area the divisor is positive and the quotient is defined.
C9_ZeroDivisorIffBothDegenerate ==
    (fn = "iou" /\ AllOrdered) =>
        \A p \in Pairs :
            LET bothZero == BoxArea(boxes1[p[1]]) = 0 /\ BoxArea(boxes2[p[2]]) = 0
                u == union(boxes1, boxes2).at[p]
            IN  /\ u = 0 <=> bothZero
                /\ bothZero => out.at[p] = <<0, 0>>
                /\ ~ bothZero => u > 0 /\ out.at[p][2] > 0

C9_Witness ==
    /\ fn = "iou"
    /\ AllOrdered
    /\ Len(boxes1) = 1
    /\ Len(boxes2) = 1
    /\ BoxArea(boxes1[1]) = 0
    /\ BoxArea(boxes2[1]) = 0
    /\ boxes1[1] # boxes2[1]
    /\ out.at[<<1, 1>>] = <<0, 0>>

\* C10: for ordered boxes 0 <= intersection_ij <= min(area1_i, area2_j), and
\* every iou entry with a non-zero divisor lies in [0, 1].
C10_IntersectionAndIouRange ==
    AllOrdered =>
        /\ fn = "intersection" =>
            \A p \in Pairs :
                /\ 0 <= out.at[p]
                /\ out.at[p] <= area(boxes1)[p[1]]
                /\ out.at[p] <= area(boxes2)[p[2]]
        /\ fn = "iou" =>
            \A p \in Pairs :
                out.at[p][2] # 0 =>
                    /\ out.at[p][2] > 0
                    /\ 0 <= out.at[p][1]
                    /\ out.at[p][1] <= out.at[p][2]

C10_Witness ==
    /\ fn = "iou"
    /\ AllOrdered
    /\ Len(boxes1) = 1
    /\ Len(boxes2) = 1
    /\ out.at[<<1, 1>>][1] > 0
    /\ out.at[<<1, 1>>][1] < out.at[<<1, 1>>][2]

-----------------------------------------------------------------------------
(* The stated properties of BoxList *)

FloatingDTypes == {"float16", "float32", "float64"}

\* the number of boxes stored at construction
StoredBoxCount == Len(getitem(data, "boxes").rows)

\* C1: construction fails with ValueError and creates no container when the
\* input is not an array, is not of shape N x 4, has a non-floating-point
\* element type or holds a box with y_min > y_max or x_min > x_max; for every
\* other input it succeeds and the container holds exactly the field 'boxes',
\* equal to the input.
C1_ConstructionValidation ==
    call.op = "__init__" =>
        LET d == call.arg
            rejected ==
                \/ ~ d.isarray
                \/ ~ (Len(d.shape) = 2 /\ d.shape[2] = 4)
                \/ d.dtype \notin FloatingDTypes
                \/ \E i \in 1..Len(d.rows) :
                      d.rows[i][1] > d.rows[i][3] \/ d.rows[i][2] > d.rows[i][4]
        IN  IF rejected
            THEN raised = "ValueError" /\ ~ constructed
            ELSE raised = "none" /\ data = <<<<"boxes", d>>>>

\* C2: add_field fails when the field name already exists ('boxes' included)
\* or when field_data has no dimension or a leading dimension other than the
\* stored box count, and then the fields and their data are unchanged; when it
\* succeeds exactly the one new field is added and every other field is
\* unchanged.
C2_AddFieldFailsOrAddsOne ==
    [][call'.op = "add_field" =>
        LET field == call'.field
            field_data == call'.arg
            mustFail ==
                \/ field \in keys(data)
                \/ Len(field_data.shape) = 0
                \/ field_data.shape[1] # StoredBoxCount
        IN  IF mustFail
            THEN raised' # "none" /\ data' = data
            ELSE /\ raised' = "none"
                 /\ Len(data') = Len(data) + 1
                 /\ keys(data') = keys(data) \cup {field}
                 /\ getitem(data', field) = field_data
                 /\ \A k \in keys(data) : getitem(data', k) = getitem(data, k)
    ]_vars

C2_Witness ==
    /\ call.op = "add_field"
    /\ raised = "ValueError"
    /\ call.field \in keys(data) \ {"boxes"}
    /\ call.arg.shape = getitem(data, call.field).shape
    /\ call.arg # getitem(data, call.field)
    /\ Len(data) = 3

\* C3: in every state after a successful construction, whatever calls were
\* made, 'boxes' is present with shape N x 4, every other field's leading
\* dimension is N = num_boxes(), and get_extra_fields() never lists 'boxes'.
C3_ShapesConsistent ==
    constructed =>
        /\ contains(data, "boxes")
        /\ getitem(data, "boxes").shape = <<StoredBoxCount, 4>>
        /\ \A i \in 1..Len(data) :
             /\ Len(data[i][2].shape) >= 1
             /\ data[i][2].shape[1] = StoredBoxCount
        /\ call.op = "num_boxes" => ret = StoredBoxCount
        /\ call.op = "get_extra_fields" =>
             /\ \A i \in 1..Len(ret) : ret[i] # "boxes"
             /\ {ret[i] : i \in 1..Len(ret)} = keys(data) \ {"boxes"}

C3_Witness ==
    /\ constructed
    /\ StoredBoxCount = 2
    /\ Len(data) = 3
    /\ call.op = "get_extra_fields"
    /\ ret = <<"scores", "labels">>

\* C4: get_field(f) fails exactly when f is absent (f is not 'boxes' and no
\* add_field(f, ...) has succeeded) and otherwise returns the data of the
\* first successful add of f (for 'boxes', the array given at construction);
\* a field once added is never overwritten or removed, and get() never fails.
C4_GetFieldReturnsFirstAdd ==
    constructed =>
        /\ keys(data) = DOMAIN firstAdd
        /\ \A f \in DOMAIN firstAdd : getitem(data, f) = firstAdd[f]
        /\ call.op = "get_field" =>
             /\ raised # "none" <=> call.field \notin DOMAIN firstAdd
             /\ raised = "none" => ret = firstAdd[call.field]
        /\ call.op = "get" => raised = "none" /\ ret = firstAdd["boxes"]

C4_Witness ==
    /\ call.op = "get_field"
    /\ call.field = "labels"
    /\ raised = "none"
    /\ ret = firstAdd["labels"]
    /\ ret.shape = <<1, 2>>
    /\ Len(data) = 3
    /\ data[2][1] = "labels"

=============================================================================
